---- MODULE Spec2Model ----
(***************************************************************************)
(* The chat component of src/components/chatbot/chatbot.jsx: the React     *)
(* state of Chatbot, its event handlers and the asynchronous handleSend    *)
(* pipeline (generation, classification, grounded verification).           *)
(*                                                                         *)
(* JavaScript strings are sequences of one-character strings, so that      *)
(* trim, toUpperCase, includes, endsWith and join are computed and not     *)
(* assumed.  null and undefined are the one-element sequences Null and     *)
(* Undefined, whose element is no character.                               *)
(*                                                                         *)
(* Every render of Chatbot creates new handler closures over the state of  *)
(* that render.  `view` is the state the handlers currently attached to    *)
(* the DOM close over; the variables messages, input, isContextEnabled,    *)
(* isFactCheckEnabled and isLoading are the hook state with every queued   *)
(* update applied.  Updates made inside a DOM event handler are rendered   *)
(* before the next event; updates made in the continuation of an await     *)
(* are rendered by a later Render step.                                    *)
(*                                                                         *)
(* The handlers are invoked by the environment in any state: the disabled  *)
(* attributes of the markup remove triggers from the page, they are not    *)
(* what handleSend's own guard relies on.                                  *)
(***************************************************************************)
EXTENDS Integers, Sequences, FiniteSets, TLC

----------------------------------------------------------------------------
(* Bounds of the model. *)

\* Turns handleSend may accept in one behaviour.
MaxTurns == 3

\* Turns handleSend may accept in one behaviour of LiveSpec.
MaxLiveTurns == 1

\* Milliseconds the clock may advance in one behaviour.
MaxTicks == 1

\* Characters of the longest text typed into the input field in InputSpec.
MaxInputLen == 4

----------------------------------------------------------------------------
(* JavaScript values. *)

Null == <<"<null>">>

Undefined == <<"<undefined>">>

Whitespace == {" ", "\n", "\t"}

\* The value of Date.now() when the component is mounted.
StartTime == 2

----------------------------------------------------------------------------
(* String literals of the source. *)

GreetingText ==
    <<"H","e","l","l","o","!"," ","A","s","k"," ","m","e"," ","a","n","y","t","h","i","n","g","."," ","M","y"," ","r","e","s","p","o","n","s","e","s"," ","c","a","n"," ","b","e"," ","f","a","c","t","-","c","h","e","c","k","e","d"," ","i","n"," ","r","e","a","l","-","t","i","m","e",".">>

ApologyText ==
    <<"S","o","r","r","y",","," ","I","'","m"," ","h","a","v","i","n","g"," ","t","r","o","u","b","l","e"," ","c","o","n","n","e","c","t","i","n","g","."," ","P","l","e","a","s","e"," ","t","r","y"," ","a","g","a","i","n"," ","l","a","t","e","r",".">>

OpinionSkipText ==
    <<"S","t","a","t","e","m","e","n","t"," ","i","s"," ","a","n"," ","o","p","i","n","i","o","n","."," ","S","k","i","p","p","i","n","g"," ","f","a","c","t","-","c","h","e","c","k",".">>

UnavailableText ==
    <<"F","a","c","t","-","c","h","e","c","k"," ","s","e","r","v","i","c","e"," ","i","s"," ","c","u","r","r","e","n","t","l","y"," ","u","n","a","v","a","i","l","a","b","l","e",".">>

TechnicalLimitationsText ==
    <<"U","n","a","b","l","e"," ","t","o"," ","c","o","m","p","l","e","t","e"," ","f","a","c","t","-","c","h","e","c","k"," ","d","u","e"," ","t","o"," ","t","e","c","h","n","i","c","a","l"," ","l","i","m","i","t","a","t","i","o","n","s",".">>

UnableToVerifyText ==
    <<"U","n","a","b","l","e"," ","t","o"," ","v","e","r","i","f","y"," ","s","t","a","t","e","m","e","n","t"," ","a","t"," ","t","h","i","s"," ","t","i","m","e",".">>

PromptHeader ==
    <<"P","r","e","v","i","o","u","s"," ","c","o","n","v","e","r","s","a","t","i","o","n",":","\n">>

PromptQuestion ==
    <<"\n","\n","C","u","r","r","e","n","t"," ","q","u","e","s","t","i","o","n",":"," ">>

BlankLine ==
    <<"\n","\n">>

FactWord ==
    <<"F","A","C","T">>

CorrectWord ==
    <<"C","O","R","R","E","C","T">>

StatementIsCorrectPhrase ==
    <<"t","h","e"," ","s","t","a","t","e","m","e","n","t"," ","i","s"," ","c","o","r","r","e","c","t">>

ThisIsAccuratePhrase ==
    <<"t","h","i","s"," ","i","s"," ","a","c","c","u","r","a","t","e">>

LowerCh ==
    <<"a","b","c","d","e","f","g","h","i","j","k","l","m","n","o","p","q","r","s","t","u","v","w","x","y","z">>

UpperCh ==
    <<"A","B","C","D","E","F","G","H","I","J","K","L","M","N","O","P","Q","R","S","T","U","V","W","X","Y","Z">>

----------------------------------------------------------------------------
(* Texts the model types and the backends answer. *)

GenText ==
    <<"S","k","y"," ","i","s"," ","g","r","e","e","n">>

TxtFACT ==
    <<"F","A","C","T">>

TxtFactPadded ==
    <<" ","f","a","c","t","\n">>

TxtOPINION ==
    <<"O","P","I","N","I","O","N">>

TxtArtifact ==
    <<"a","r","t","i","f","a","c","t">>

TxtFiction ==
    <<"F","i","c","t","i","o","n">>

TxtCORRECT ==
    <<"C","O","R","R","E","C","T">>

TxtCorrectPadded ==
    <<" ","C","o","r","r","e","c","t","\n">>

TxtIncorrect ==
    <<"I","n","c","o","r","r","e","c","t">>

TxtStatementCorrect ==
    <<"T","h","e"," ","s","t","a","t","e","m","e","n","t"," ","i","s"," ","c","o","r","r","e","c","t",".">>

TxtCorrectLower ==
    <<"c","o","r","r","e","c","t">>

TxtCorrectPeriod ==
    <<"C","O","R","R","E","C","T",".">>

TxtIsAccurate ==
    <<"Y","e","s",","," ","T","H","I","S"," ","I","S"," ","A","C","C","U","R","A","T","E",".">>

TxtThisIs ==
    <<"T","h","i","s"," ","i","s">>

TxtAccurate ==
    <<"a","c","c","u","r","a","t","e">>

InA ==
    <<"a">>

InAQ ==
    <<" ","a","?"," ">>

InSpace ==
    <<" ">>

----------------------------------------------------------------------------
(* String operations of JavaScript used by the component. *)

\* The operations that walk a string are functions: a function is applied
\* to the value of its argument.

TrimStartOf[s \in Seq(STRING)] ==
    IF s /= <<>> /\ Head(s) \in Whitespace THEN TrimStartOf[Tail(s)] ELSE s

TrimEndOf[s \in Seq(STRING)] ==
    IF s /= <<>> /\ s[Len(s)] \in Whitespace
    THEN TrimEndOf[SubSeq(s, 1, Len(s) - 1)]
    ELSE s

\* String.prototype.trim
Trim(s) == TrimEndOf[TrimStartOf[s]]

UpperOf(c) ==
    IF \E k \in 1..Len(LowerCh) : LowerCh[k] = c
    THEN UpperCh[CHOOSE k \in 1..Len(LowerCh) : LowerCh[k] = c]
    ELSE c

LowerOf(c) ==
    IF \E k \in 1..Len(UpperCh) : UpperCh[k] = c
    THEN LowerCh[CHOOSE k \in 1..Len(UpperCh) : UpperCh[k] = c]
    ELSE c

UpperCaseOf[s \in Seq(STRING)] ==
    IF s = <<>> THEN <<>> ELSE <<UpperOf(Head(s))>> \o UpperCaseOf[Tail(s)]

LowerCaseOf[s \in Seq(STRING)] ==
    IF s = <<>> THEN <<>> ELSE <<LowerOf(Head(s))>> \o LowerCaseOf[Tail(s)]

\* String.prototype.toUpperCase
ToUpperCase(s) == UpperCaseOf[s]

\* String.prototype.toLowerCase
ToLowerCase(s) == LowerCaseOf[s]

\* String.prototype.includes
Includes(s, sub) ==
    \E str \in {s} :
        \E i \in 0..(Len(str) - Len(sub)) :
            \A j \in 1..Len(sub) : str[i + j] = sub[j]

\* String.prototype.endsWith
EndsWith(s, suffix) ==
    \E str \in {s} :
        /\ Len(str) >= Len(suffix)
        /\ SubSeq(str, Len(str) - Len(suffix) + 1, Len(str)) = suffix

\* Truthiness of a value that is a string, null or undefined.
Truthy(s) == \E v \in {s} : v /= Undefined /\ v /= Null /\ v /= <<>>

\* slice(0, n) in place of slice(-n)
SliceFirst(arr, n) ==
    SubSeq(arr, 1, IF Len(arr) > n THEN n ELSE Len(arr))

\* Array.prototype.slice(-n)
SliceLast(arr, n) ==
    SubSeq(arr, IF Len(arr) > n THEN Len(arr) - n + 1 ELSE 1, Len(arr))

JoinOf[texts \in Seq(Seq(STRING)), sep \in Seq(STRING)] ==
    IF texts = <<>> THEN <<>>
    ELSE IF Len(texts) = 1 THEN texts[1]
    ELSE texts[1] \o sep \o JoinOf[Tail(texts), sep]

\* Array.prototype.join
Join(texts, sep) == JoinOf[texts, sep]

TextPartsOf[parts \in Seq(Seq(STRING))] ==
    IF parts = <<>> THEN <<>>
    ELSE IF Truthy(Head(parts)) THEN <<Head(parts)>> \o TextPartsOf[Tail(parts)]
    ELSE TextPartsOf[Tail(parts)]

\* Array.prototype.filter(part => part.text), then map(part => part.text)
TextParts(parts) == TextPartsOf[parts]

----------------------------------------------------------------------------
(* The pure parts of the handlers. *)

\* endsWith tested on the input as typed, not on the trimmed input.
ProcessedInputChecksUntrimmed(in) ==
    IF EndsWith(in, <<"?">>) THEN Trim(in) ELSE Trim(in) \o <<"?">>

\* handleSend: the normalized input
ProcessedInput(in) ==
    IF EndsWith(Trim(in), <<"?">>) THEN Trim(in) ELSE Trim(in) \o <<"?">>

\* handleSend: how many messages of the history go into the prompt
ContextSize == 4

\* handleSend: the texts of the context window
ContextTexts(history) ==
    [i \in 1..Len(SliceLast(history, ContextSize)) |->
        SliceLast(history, ContextSize)[i].text]

\* The context taken from the conversation with the new user message in it.
PromptWithContextOwnMessage(processedInput, contextEnabled, history) ==
    IF contextEnabled
    THEN PromptHeader
             \o Join(ContextTexts(Append(history, [text |-> processedInput])),
                     BlankLine)
             \o PromptQuestion \o processedInput
    ELSE processedInput

\* handleSend: the prompt sent to the generation endpoint
PromptWithContext(processedInput, contextEnabled, history) ==
    IF contextEnabled
    THEN PromptHeader \o Join(ContextTexts(history), BlankLine)
             \o PromptQuestion \o processedInput
    ELSE processedInput

\* The guard without its isLoading test.
SendGuardIgnoresLoading(in, loading) == Truthy(Trim(in))

\* The guard testing the input as typed, not the trimmed input.
SendGuardUntrimmed(in, loading) == Truthy(in) /\ ~loading

\* handleSend: the guard that lets a submit through
SendGuard(in, loading) == Truthy(Trim(in)) /\ ~loading

\* The catch block of classifyStatementType returning FACT.
ClassifyDefaultsToFact(reply) ==
    IF reply.throws \/ reply.text = Undefined
    THEN "FACT"
    ELSE LET responseText == ToUpperCase(Trim(reply.text))
         IN  IF Includes(responseText, FactWord) THEN "FACT" ELSE "OPINION"

\* classifyStatementType: the label of a reply of the classification call
ClassifyStatementType(reply) ==
    IF reply.throws \/ reply.text = Undefined
    THEN "OPINION"
    ELSE LET responseText == ToUpperCase(Trim(reply.text))
         IN  IF Includes(responseText, FactWord) THEN "FACT" ELSE "OPINION"

\* getFactCheckCorrection: response.candidates || []
Candidates(reply) == IF reply.hasCandidates THEN reply.candidates ELSE <<>>

\* getFactCheckCorrection: the text extracted from a reply of the verification call
GroundedResponse(reply) ==
    IF Truthy(reply.text) THEN Trim(reply.text)
    ELSE IF reply.functionCalls /= Undefined /\ Len(reply.functionCalls) > 0
    THEN LET candidates == Candidates(reply)
             joined ==
                 IF /\ Len(candidates) > 0
                    /\ candidates[1].hasContent
                    /\ candidates[1].hasParts
                    /\ Len(TextParts(candidates[1].parts)) > 0
                 THEN Trim(Join(TextParts(candidates[1].parts), <<" ">>))
                 ELSE <<>>
         IN  IF joined = <<>> THEN TechnicalLimitationsText ELSE joined
    ELSE UnableToVerifyText

\* The three tests made on the text as it is, with no case conversion.
IsExplicitlyCorrectCaseSensitive(groundedResponse) ==
    \/ groundedResponse = CorrectWord
    \/ Includes(groundedResponse, StatementIsCorrectPhrase)
    \/ Includes(groundedResponse, ThisIsAccuratePhrase)

\* getFactCheckCorrection: whether the extracted text says the statement is correct
IsExplicitlyCorrect(groundedResponse) ==
    LET lower == ToLowerCase(groundedResponse)
    IN  \/ ToUpperCase(groundedResponse) = CorrectWord
        \/ Includes(lower, StatementIsCorrectPhrase)
        \/ Includes(lower, ThisIsAccuratePhrase)

\* The catch block of getFactCheckCorrection returning null.
FactCheckCorrectionSwallows(reply) ==
    IF reply.throws THEN Null
    ELSE LET groundedResponse == GroundedResponse(reply)
         IN  IF IsExplicitlyCorrect(groundedResponse) THEN Null
             ELSE groundedResponse

\* getFactCheckCorrection: the correction for a reply of the verification call
FactCheckCorrection(reply) ==
    IF reply.throws THEN UnavailableText
    ELSE LET groundedResponse == GroundedResponse(reply)
         IN  IF IsExplicitlyCorrect(groundedResponse) THEN Null
             ELSE groundedResponse

----------------------------------------------------------------------------
(* Messages and the replies of the backends. *)

\* A message object; a user message has no isError property, which reads as false.
Message(id, text, sender, correction, isError) ==
    [id |-> id, text |-> text, sender |-> sender,
     correction |-> correction, isError |-> isError]

\* useState initial value of messages
InitialMessages ==
    <<Message(1, GreetingText, "bot", Null, FALSE)>>

\* What an awaited call settles with: a rejection (throws) or a value, of
\* which ok is Response.ok, text is data.response or response.text.
Reply(kind, throws, ok, text, functionCalls, hasCandidates, candidates) ==
    [kind |-> kind, throws |-> throws, ok |-> ok, text |-> text,
     functionCalls |-> functionCalls, hasCandidates |-> hasCandidates,
     candidates |-> candidates]

\* The awaited call has not settled.
NoReply == Reply("none", FALSE, FALSE, Undefined, Undefined, FALSE, <<>>)

\* candidates[i] of a generateContent response
Candidate(hasContent, hasParts, parts) ==
    [hasContent |-> hasContent, hasParts |-> hasParts, parts |-> parts]

\* fetch(endpoint): network failure, HTTP 500, HTTP 200
FetchReplies ==
    { Reply("fetch", TRUE, FALSE, Undefined, Undefined, FALSE, <<>>),
      Reply("fetch", FALSE, FALSE, Undefined, Undefined, FALSE, <<>>),
      Reply("fetch", FALSE, TRUE, Undefined, Undefined, FALSE, <<>>) }

\* response.json(): a body that is no JSON, no response field, an empty one, a text
JsonReplies ==
    { Reply("json", TRUE, TRUE, Undefined, Undefined, FALSE, <<>>),
      Reply("json", FALSE, TRUE, Undefined, Undefined, FALSE, <<>>),
      Reply("json", FALSE, TRUE, <<>>, Undefined, FALSE, <<>>),
      Reply("json", FALSE, TRUE, GenText, Undefined, FALSE, <<>>) }

GenAIText(text) == Reply("genai", FALSE, TRUE, text, Undefined, FALSE, <<>>)

GenAIThrows == Reply("genai", TRUE, FALSE, Undefined, Undefined, FALSE, <<>>)

\* ai.models.generateContent of classifyStatementType
ClassifyReplies ==
    { GenAIThrows, GenAIText(Undefined), GenAIText(<<>>),
      GenAIText(TxtFACT), GenAIText(TxtFactPadded), GenAIText(TxtArtifact),
      GenAIText(TxtOPINION), GenAIText(TxtFiction) }

\* A verification reply whose text is found in the first candidate's parts.
VerifyFromParts ==
    Reply("genai", FALSE, TRUE, Undefined, <<"google_search">>, TRUE,
          <<Candidate(TRUE, TRUE, <<Undefined, TxtCorrectPadded>>)>>)

\* ai.models.generateContent of getFactCheckCorrection
VerifyReplies ==
    { GenAIThrows,
      GenAIText(TxtCORRECT),
      GenAIText(TxtStatementCorrect),
      GenAIText(TxtIncorrect),
      VerifyFromParts }

\* response.text of a verification response, in VerifierSpec
VerifyTexts ==
    { Undefined, <<>>, InSpace, TxtCORRECT, TxtCorrectLower, TxtCorrectPadded,
      TxtCorrectPeriod, TxtStatementCorrect, TxtIsAccurate, TxtIncorrect }

\* response.functionCalls of a verification response, in VerifierSpec
VerifyFunctionCalls == { Undefined, <<>>, <<"google_search">> }

\* response.candidates of a verification response, in VerifierSpec: none,
\* an empty list, a first candidate without content, without parts, with
\* parts that have no text, blank text, or the texts that are joined.
VerifyCandidates ==
    { <<>>,
      <<Candidate(FALSE, FALSE, <<>>)>>,
      <<Candidate(TRUE, FALSE, <<>>)>>,
      <<Candidate(TRUE, TRUE, <<>>)>>,
      <<Candidate(TRUE, TRUE, <<Undefined>>)>>,
      <<Candidate(TRUE, TRUE, <<InSpace>>)>>,
      <<Candidate(TRUE, TRUE, <<Undefined, TxtCorrectPadded>>)>>,
      <<Candidate(TRUE, TRUE, <<TxtIncorrect, TxtCORRECT>>)>>,
      <<Candidate(TRUE, TRUE, <<TxtThisIs, TxtAccurate>>)>> }

\* ai.models.generateContent of getFactCheckCorrection, in VerifierSpec:
\* every response made of the parts above.
WideVerifyReplies ==
    { Reply("genai", FALSE, TRUE, text, functionCalls, TRUE, candidates) :
          text \in VerifyTexts, functionCalls \in VerifyFunctionCalls,
          candidates \in VerifyCandidates }
    \cup
    { Reply("genai", FALSE, TRUE, text, functionCalls, FALSE, <<>>) :
          text \in VerifyTexts, functionCalls \in VerifyFunctionCalls }

\* What the user may type into the input field.
TypedInputs == { <<>>, InSpace, InA, InAQ }

\* The characters of the texts of InputSpec: a letter, the question mark,
\* a space and a line break.
InputAlphabet == {"a", "?", " ", "\n"}

\* Every text of at most MaxInputLen characters of InputAlphabet.
InputTexts == UNION {[1..n -> InputAlphabet] : n \in 0..MaxInputLen}

----------------------------------------------------------------------------
(* State. *)

VARIABLES
    messages,            \* useState messages
    input,               \* useState input
    isContextEnabled,    \* useState isContextEnabled
    isFactCheckEnabled,  \* useState isFactCheckEnabled
    isLoading,           \* useState isLoading
    view,                \* the state the attached handlers close over
    inflight,            \* the invocations of handleSend suspended at an await
    now                  \* Date.now()

vars ==
    <<messages, input, isContextEnabled, isFactCheckEnabled, isLoading,
      view, inflight, now>>

\* The hook state as the next render will see it.
Rendered ==
    [messages |-> messages, input |-> input,
     isContextEnabled |-> isContextEnabled,
     isFactCheckEnabled |-> isFactCheckEnabled,
     isLoading |-> isLoading]

\* What of a render's state handleSend reads: messages and the two switches.
Closure(state) ==
    [messages |-> state.messages,
     isContextEnabled |-> state.isContextEnabled,
     isFactCheckEnabled |-> state.isFactCheckEnabled]

\* Turns accepted so far: each one appended one user message.
Turns == Cardinality({i \in 1..Len(messages) : messages[i].sender = "user"})

Init ==
    /\ messages = InitialMessages
    /\ input = <<>>
    /\ isContextEnabled = TRUE
    /\ isFactCheckEnabled = TRUE
    /\ isLoading = FALSE
    /\ view = Rendered
    /\ inflight = {}
    /\ now = StartTime

----------------------------------------------------------------------------
(* Event handlers. *)

\* onChange of the input field: setInput(e.target.value)
OnChange ==
    \E v \in TypedInputs :
        /\ v /= view.input
        /\ input' = v
        /\ view' = [view EXCEPT !.input = v]
        /\ UNCHANGED <<messages, isContextEnabled, isFactCheckEnabled,
                       isLoading, inflight, now>>

\* onClick of the context switch: setIsContextEnabled(!isContextEnabled)
ToggleContext ==
    /\ isContextEnabled' = ~view.isContextEnabled
    /\ view' = [view EXCEPT !.isContextEnabled = ~view.isContextEnabled]
    /\ UNCHANGED <<messages, input, isFactCheckEnabled, isLoading, inflight, now>>

\* onClick of the fact-check switch: setIsFactCheckEnabled(!isFactCheckEnabled)
ToggleFactCheck ==
    /\ isFactCheckEnabled' = ~view.isFactCheckEnabled
    /\ view' = [view EXCEPT !.isFactCheckEnabled = ~view.isFactCheckEnabled]
    /\ UNCHANGED <<messages, input, isContextEnabled, isLoading, inflight, now>>

\* handleSend, the early return: only e.preventDefault() has run
SubmitRejected ==
    /\ ~SendGuard(view.input, view.isLoading)
    /\ UNCHANGED vars

\* handleSend up to its first await: the user message, the prompt, the fetch
SubmitAcceptedWithin(maxTurns) ==
    /\ SendGuard(view.input, view.isLoading)
    /\ Turns < maxTurns
    /\ LET processedInput == ProcessedInput(view.input)
           userMessage == Message(now, processedInput, "user", Null, FALSE)
       IN  /\ messages' = Append(messages, userMessage)
           /\ input' = <<>>
           /\ isLoading' = TRUE
           /\ view' = [view EXCEPT !.messages = Append(view.messages, userMessage),
                                   !.input = <<>>,
                                   !.isLoading = TRUE]
           /\ inflight' = inflight \cup
                  {[pc |-> "fetch",
                    reply |-> NoReply,
                    closure |-> Closure(view),
                    atSubmit |-> Closure(Rendered),
                    processedInput |-> processedInput,
                    promptWithContext |->
                        PromptWithContext(processedInput, view.isContextEnabled,
                                          view.messages),
                    response |-> Undefined,
                    calls |-> <<"generate">>]}
           /\ UNCHANGED <<isContextEnabled, isFactCheckEnabled, now>>

----------------------------------------------------------------------------
(* The backends: an awaited call settles. *)

Settle(t, reply) ==
    /\ t.reply = NoReply
    /\ inflight' = (inflight \ {t}) \cup {[t EXCEPT !.reply = reply]}
    /\ UNCHANGED <<messages, input, isContextEnabled, isFactCheckEnabled,
                   isLoading, view, now>>

FetchSettles ==
    \E t \in inflight : \E r \in FetchReplies : t.pc = "fetch" /\ Settle(t, r)

JsonSettles ==
    \E t \in inflight : \E r \in JsonReplies : t.pc = "json" /\ Settle(t, r)

ClassifySettles ==
    \E t \in inflight : \E r \in ClassifyReplies : t.pc = "classify" /\ Settle(t, r)

VerifySettles ==
    \E t \in inflight : \E r \in VerifyReplies : t.pc = "verify" /\ Settle(t, r)

----------------------------------------------------------------------------
(* handleSend after an await. *)

\* The invocation goes on to its next await.
Await(t, pc, response, calls) ==
    /\ inflight' = (inflight \ {t}) \cup
           {[t EXCEPT !.pc = pc, !.reply = NoReply,
                      !.response = response, !.calls = calls]}
    /\ UNCHANGED <<messages, input, isContextEnabled, isFactCheckEnabled,
                   isLoading, view, now>>

\* The invocation ends without the finally block.
FinishKeepsLoading(t, botMessage) ==
    /\ messages' = Append(messages, botMessage)
    /\ inflight' = inflight \ {t}
    /\ UNCHANGED <<input, isContextEnabled, isFactCheckEnabled, isLoading,
                   view, now>>

\* The bot message appended to the messages of the closure, not to the
\* latest ones: setMessages([...messages, botMessage]).
FinishFromClosure(t, botMessage) ==
    /\ messages' = Append(t.closure.messages, botMessage)
    /\ isLoading' = FALSE
    /\ inflight' = inflight \ {t}
    /\ UNCHANGED <<input, isContextEnabled, isFactCheckEnabled, view, now>>

\* The invocation appends its bot message and ends: setMessages, then the
\* finally block's setIsLoading(false).
Finish(t, botMessage) ==
    /\ messages' = Append(messages, botMessage)
    /\ isLoading' = FALSE
    /\ inflight' = inflight \ {t}
    /\ UNCHANGED <<input, isContextEnabled, isFactCheckEnabled, view, now>>

\* The bot message built without the correction.
BotMessageDropsCorrection(t, correction) ==
    Message(now + 1, t.response, "bot", Null, FALSE)

\* handleSend, the try block's last statements
BotMessage(t, correction) ==
    Message(now + 1, t.response, "bot", correction, FALSE)

\* The catch block's message without its isError property.
ErrorMessageUnflagged ==
    Message(now + 1, ApologyText, "bot", Null, FALSE)

\* handleSend, the catch block
ErrorMessage ==
    Message(now + 1, ApologyText, "bot", Null, TRUE)

\* The fact check run whatever the switch says.
AlwaysFactCheck(t) == TRUE

\* The switch read from the latest render instead of the closure.
FactCheckEnabledNow(t) == view.isFactCheckEnabled

\* handleSend reads isFactCheckEnabled from the closure it was called in.
FactCheckEnabledFor(t) == t.closure.isFactCheckEnabled

\* The catch block clearing isLoading without appending the error message.
ResumeAfterFetchSilentFailure ==
    \E t \in inflight :
        /\ t.pc = "fetch" /\ t.reply /= NoReply
        /\ IF t.reply.throws \/ ~t.reply.ok
           THEN /\ isLoading' = FALSE
                /\ inflight' = inflight \ {t}
                /\ UNCHANGED <<messages, input, isContextEnabled,
                               isFactCheckEnabled, view, now>>
           ELSE Await(t, "json", t.response, t.calls)

\* after await fetch(...): the status check, then response.json()
ResumeAfterFetch ==
    \E t \in inflight :
        /\ t.pc = "fetch" /\ t.reply /= NoReply
        /\ IF t.reply.throws \/ ~t.reply.ok
           THEN Finish(t, ErrorMessage)
           ELSE Await(t, "json", t.response, t.calls)

\* classifyStatementType called without await: its promise is not 'OPINION',
\* so the verification call is issued while the classification call is out.
ResumeAfterJsonUnawaitedClassify ==
    \E t \in inflight :
        /\ t.pc = "json" /\ t.reply /= NoReply
        /\ IF t.reply.throws \/ ~Truthy(t.reply.text)
           THEN Finish(t, ErrorMessage)
           ELSE IF FactCheckEnabledFor(t)
                THEN Await(t, "verify", t.reply.text,
                           t.calls \o <<"classify", "verify">>)
                ELSE Finish(t, BotMessage([t EXCEPT !.response = t.reply.text], Null))

\* after await response.json(): the payload check, then the fact check or
\* the bot message
ResumeAfterJson ==
    \E t \in inflight :
        /\ t.pc = "json" /\ t.reply /= NoReply
        /\ IF t.reply.throws \/ ~Truthy(t.reply.text)
           THEN Finish(t, ErrorMessage)
           ELSE IF FactCheckEnabledFor(t)
                THEN Await(t, "classify", t.reply.text, Append(t.calls, "classify"))
                ELSE Finish(t, BotMessage([t EXCEPT !.response = t.reply.text], Null))

\* The verification call issued whatever the label is.
ResumeAfterClassifyAlwaysVerifies ==
    \E t \in inflight :
        /\ t.pc = "classify" /\ t.reply /= NoReply
        /\ Await(t, "verify", t.response, Append(t.calls, "verify"))

\* after the classification call: the label, then the verification call or
\* the bot message with the skip text
ResumeAfterClassify ==
    \E t \in inflight :
        /\ t.pc = "classify" /\ t.reply /= NoReply
        /\ IF ClassifyStatementType(t.reply) = "OPINION"
           THEN Finish(t, BotMessage(t, OpinionSkipText))
           ELSE Await(t, "verify", t.response, Append(t.calls, "verify"))

\* after the verification call: the correction, then the bot message
ResumeAfterVerify ==
    \E t \in inflight :
        /\ t.pc = "verify" /\ t.reply /= NoReply
        /\ Finish(t, BotMessage(t, FactCheckCorrection(t.reply)))

----------------------------------------------------------------------------
(* React and the clock. *)

\* React renders the updates queued by a continuation.
Render ==
    /\ view /= Rendered
    /\ view' = Rendered
    /\ UNCHANGED <<messages, input, isContextEnabled, isFactCheckEnabled,
                   isLoading, inflight, now>>

\* A millisecond passes.
Tick ==
    /\ now < StartTime + MaxTicks
    /\ now' = now + 1
    /\ UNCHANGED <<messages, input, isContextEnabled, isFactCheckEnabled,
                   isLoading, view, inflight>>

\* The steps of the component when at most maxTurns submits are accepted.
NextWithin(maxTurns) ==
    \/ OnChange
    \/ ToggleContext
    \/ ToggleFactCheck
    \/ SubmitRejected
    \/ SubmitAcceptedWithin(maxTurns)
    \/ FetchSettles
    \/ JsonSettles
    \/ ClassifySettles
    \/ VerifySettles
    \/ ResumeAfterFetch
    \/ ResumeAfterJson
    \/ ResumeAfterClassify
    \/ ResumeAfterVerify
    \/ Render
    \/ Tick

Next == NextWithin(MaxTurns)

Spec == Init /\ [][Next]_vars

\* A suspended invocation goes on: its awaited call settles, or the
\* continuation of its settled await runs.
Progress ==
    \/ FetchSettles \/ JsonSettles \/ ClassifySettles \/ VerifySettles
    \/ ResumeAfterFetch \/ ResumeAfterJson
    \/ ResumeAfterClassify \/ ResumeAfterVerify

\* The awaited calls settle (the transport answers or fails) and the event
\* loop runs the continuation of a settled await.
LiveSpec == Init /\ [][NextWithin(MaxLiveTurns)]_vars /\ WF_vars(Progress)

----------------------------------------------------------------------------
(* handleSend on any typed text. *)

\* The mounted component after the user has typed some text: the state
\* after onChange, with e.target.value any text of InputTexts.
InputInit ==
    /\ messages = InitialMessages
    /\ input \in InputTexts
    /\ isContextEnabled = TRUE
    /\ isFactCheckEnabled = TRUE
    /\ isLoading = FALSE
    /\ view = Rendered
    /\ inflight = {}
    /\ now = StartTime

\* The form is submitted.
InputNext ==
    \/ SubmitRejected
    \/ SubmitAcceptedWithin(MaxTurns)

\* handleSend up to its first await, on every text of InputTexts.
InputSpec == InputInit /\ [][InputNext]_vars

----------------------------------------------------------------------------
(* getFactCheckCorrection on any response of the verification call. *)

\* A state of Spec: the first turn, accepted with both switches on, has
\* its generated text and the label FACT and awaits the verification call.
VerifierInit ==
    LET processedInput == ProcessedInput(InA)
        userMessage == Message(StartTime, processedInput, "user", Null, FALSE)
        closure == [messages |-> InitialMessages,
                    isContextEnabled |-> TRUE,
                    isFactCheckEnabled |-> TRUE]
    IN  /\ messages = Append(InitialMessages, userMessage)
        /\ input = <<>>
        /\ isContextEnabled = TRUE
        /\ isFactCheckEnabled = TRUE
        /\ isLoading = TRUE
        /\ view = Rendered
        /\ inflight =
               {[pc |-> "verify",
                 reply |-> NoReply,
                 closure |-> closure,
                 atSubmit |-> closure,
                 processedInput |-> processedInput,
                 promptWithContext |->
                     PromptWithContext(processedInput, TRUE, InitialMessages),
                 response |-> GenText,
                 calls |-> <<"generate", "classify", "verify">>]}
        /\ now = StartTime

\* The verification call settles with any response of WideVerifyReplies.
VerifySettlesWide ==
    \E t \in inflight : \E r \in WideVerifyReplies :
        t.pc = "verify" /\ Settle(t, r)

VerifierNext ==
    \/ VerifySettlesWide
    \/ ResumeAfterVerify
    \/ Render

\* The verification step of a turn, on every response of WideVerifyReplies.
VerifierSpec == VerifierInit /\ [][VerifierNext]_vars

----------------------------------------------------------------------------
(* Vocabulary of the properties. *)

Last(seq) == seq[Len(seq)]

\* This step runs the continuation of t's settled await.
Resumes(t) == t \in inflight /\ t.reply /= NoReply /\ t \notin inflight'

\* This step ends t: one message more, the flag cleared, the invocation gone.
Ends(t) ==
    /\ Resumes(t)
    /\ Len(messages') = Len(messages) + 1
    /\ SubSeq(messages', 1, Len(messages)) = messages
    /\ isLoading' = FALSE
    /\ inflight' = inflight \ {t}

\* The generation call of t has failed: fetch rejected or answered a
\* non-success status, or the body is no JSON or has no (or an empty) response.
GenerationFailed(t) ==
    \/ t.pc = "fetch" /\ t.reply.kind = "fetch" /\ (t.reply.throws \/ ~t.reply.ok)
    \/ /\ t.pc = "json" /\ t.reply.kind = "json"
       /\ (t.reply.throws \/ t.reply.text = Undefined \/ t.reply.text = <<>>)

----------------------------------------------------------------------------
(* Properties. *)

\* C1: while isLoading is true (a turn is Sending) no step appends a user
\* message, starts a generation call or adds an invocation, so a submit
\* issued then is dropped; at most one invocation of handleSend is ever in
\* flight, and exactly while isLoading is true.
C1_SingleFlight ==
    /\ [](Cardinality(inflight) <= 1 /\ (isLoading <=> inflight /= {}))
    /\ [][isLoading =>
            /\ \A i \in 1..Len(messages') :
                   i > Len(messages) => messages'[i].sender /= "user"
            /\ Cardinality(inflight') <= Cardinality(inflight)
            /\ \A n \in inflight' :
                   \E t \in inflight :
                       /\ n.atSubmit = t.atSubmit
                       /\ n.promptWithContext = t.promptWithContext
                       /\ Len(n.calls) >= Len(t.calls)]_vars

\* C1 witness: a turn is in flight and the input is not blank, so the guard
\* rejects a submit only because of isLoading.
C1_Witness ==
    /\ isLoading /\ inflight /= {}
    /\ Truthy(Trim(view.input))
    /\ ~SendGuard(view.input, view.isLoading)

\* C2: whenever isLoading is true it is eventually false again, whatever the
\* awaited calls settle with.
C2_EventuallyIdle == isLoading ~> ~isLoading

\* C2 witness: a turn was accepted, has ended, and the component is rendered
\* with isLoading false again.
C2_Witness ==
    /\ ~isLoading /\ inflight = {}
    /\ Len(messages) = 3
    /\ view = Rendered

\* C3: when the generation call of a turn fails, the continuation appends
\* exactly one message, the bot message with the apology text, isError true
\* and correction null, clears isLoading and ends the invocation, which has
\* issued no call but the generation call.
C3_GenerationFailure ==
    [][\A t \in inflight :
          GenerationFailed(t) /\ Resumes(t) =>
              /\ Ends(t)
              /\ Last(messages').sender = "bot"
              /\ Last(messages').text = ApologyText
              /\ Last(messages').isError = TRUE
              /\ Last(messages').correction = Null
              /\ t.calls = <<"generate">>]_vars

\* C3 witness: the conversation ends with a user message and the apology.
C3_Witness ==
    /\ ~isLoading /\ inflight = {}
    /\ Len(messages) >= 3
    /\ Last(messages).isError /\ Last(messages).text = ApologyText
    /\ messages[Len(messages) - 1].sender = "user"

\* C4: an invocation accepted with isFactCheckEnabled false issues no call
\* but the generation call, and when its generation succeeds the bot message
\* it appends carries the generated text with correction null.
C4_FactCheckDisabled ==
    [][\A t \in inflight :
          ~t.atSubmit.isFactCheckEnabled =>
              /\ t.pc \in {"fetch", "json"}
              /\ t.calls = <<"generate">>
              /\ \A n \in inflight' : n.calls = <<"generate">>
              /\ (t.pc = "json" /\ Resumes(t) /\ ~GenerationFailed(t)) =>
                     /\ Ends(t)
                     /\ Last(messages').sender = "bot"
                     /\ Last(messages').text = t.reply.text
                     /\ Last(messages').isError = FALSE
                     /\ Last(messages').correction = Null]_vars

\* C4 witness: a turn accepted with fact checking off has its generated text
\* and is about to append the bot message.
C4_Witness ==
    \E t \in inflight :
        /\ ~t.atSubmit.isFactCheckEnabled
        /\ t.pc = "json" /\ t.reply.text = GenText

\* C5: when the classification of a turn yields OPINION, the continuation
\* appends the bot message with the generated text and the skip text (not
\* null) as correction and ends the invocation, which has issued the
\* generation and the classification call and no verification call.
C5_OpinionSkip ==
    [][\A t \in inflight :
          (/\ t.pc = "classify" /\ Resumes(t)
           /\ ClassifyStatementType(t.reply) = "OPINION") =>
              /\ Ends(t)
              /\ Last(messages').sender = "bot"
              /\ Last(messages').text = t.response
              /\ Last(messages').isError = FALSE
              /\ Last(messages').correction = OpinionSkipText
              /\ Last(messages').correction /= Null
              /\ t.calls = <<"generate", "classify">>]_vars

\* C5 witness: the conversation ends with a bot message carrying the skip text.
C5_Witness ==
    /\ ~isLoading /\ inflight = {}
    /\ Last(messages).text = GenText
    /\ Last(messages).correction = OpinionSkipText

\* What the verifier is to make of each reply of VerifyReplies: null for the
\* replies that say the statement is correct, else the text of the reply.
ExpectedCorrection(reply) ==
    CASE reply = GenAIThrows -> UnavailableText
      [] reply = GenAIText(TxtCORRECT) -> Null
      [] reply = GenAIText(TxtStatementCorrect) -> Null
      [] reply = VerifyFromParts -> Null
      [] reply = GenAIText(TxtIncorrect) -> TxtIncorrect

\* C6: in a turn accepted with fact checking on, the verification call is
\* issued exactly when the classification yields FACT, and after it the bot
\* message has the generated text, isError false, and as correction null
\* when the verifier found the statement correct, else the verifier's text.
C6_VerifyOnFact ==
    [][\A t \in inflight :
          /\ t.pc = "verify" =>
                 /\ t.atSubmit.isFactCheckEnabled
                 /\ t.calls = <<"generate", "classify", "verify">>
          /\ (t.pc = "classify" /\ Resumes(t)) =>
                 (ClassifyStatementType(t.reply) = "FACT" <=>
                      \E n \in inflight' :
                          /\ n.pc = "verify"
                          /\ n.response = t.response
                          /\ n.calls = Append(t.calls, "verify"))
          /\ (t.pc = "verify" /\ Resumes(t)) =>
                 /\ Ends(t)
                 /\ Last(messages').sender = "bot"
                 /\ Last(messages').text = t.response
                 /\ Last(messages').isError = FALSE
                 /\ Last(messages').correction = ExpectedCorrection(t.reply)]_vars

\* C6 witness: the conversation ends with a bot message carrying the
\* verifier's text as correction.
C6_Witness ==
    /\ ~isLoading /\ inflight = {}
    /\ Last(messages).text = GenText
    /\ Last(messages).correction = TxtIncorrect

\* C7: when the verification call fails, the continuation appends a bot
\* message with the generated text, not the apology, isError false and the
\* unavailable text as correction, and clears isLoading.
C7_VerifyFailure ==
    [][\A t \in inflight :
          (t.pc = "verify" /\ Resumes(t) /\ t.reply.throws) =>
              /\ Ends(t)
              /\ Last(messages').sender = "bot"
              /\ Last(messages').text = t.response
              /\ Last(messages').text /= ApologyText
              /\ Last(messages').isError = FALSE
              /\ Last(messages').correction = UnavailableText]_vars

\* C7 witness: the conversation ends with a bot message that is no error and
\* carries the unavailable text.
C7_Witness ==
    /\ ~isLoading /\ inflight = {}
    /\ Last(messages).text = GenText
    /\ ~Last(messages).isError
    /\ Last(messages).correction = UnavailableText

\* The classification replies whose text names a fact, in any case.
RepliesNamingFact ==
    {GenAIText(TxtFACT), GenAIText(TxtFactPadded), GenAIText(TxtArtifact)}

\* C8: when the classification call fails (it throws, or its response has no
\* text) the turn ends as for OPINION: a bot message that is no error, with
\* the skip text, and no verification call; when the call succeeds the
\* verification call follows exactly when the text, upper-cased, contains FACT.
C8_ClassifierFailSafe ==
    [][\A t \in inflight :
          (t.pc = "classify" /\ Resumes(t)) =>
              IF t.reply.throws \/ t.reply.text = Undefined
              THEN /\ ClassifyStatementType(t.reply) = "OPINION"
                   /\ Ends(t)
                   /\ Last(messages').text = t.response
                   /\ Last(messages').isError = FALSE
                   /\ Last(messages').correction = OpinionSkipText
                   /\ \A n \in inflight' : n.pc /= "verify"
              ELSE /\ ClassifyStatementType(t.reply) = "FACT"
                       <=> t.reply \in RepliesNamingFact
                   /\ t.reply \in RepliesNamingFact
                       <=> \E n \in inflight' : n.pc = "verify"]_vars

\* C8 witness: the classification call of a turn has failed and its
\* continuation is about to run.
C8_Witness ==
    \E t \in inflight :
        t.pc = "classify" /\ (t.reply = GenAIThrows \/ t.reply = GenAIText(Undefined))

\* C9: a click on a switch changes neither the conversation nor isLoading
\* nor the invocation in flight, prompt included; the prompt has the context
\* exactly when isContextEnabled was true when the submit was accepted, and
\* the classification call follows a successful generation exactly when
\* isFactCheckEnabled was true then.
C9_TogglesReadOnce ==
    [][/\ (isContextEnabled' /= isContextEnabled
              \/ isFactCheckEnabled' /= isFactCheckEnabled) =>
              /\ messages' = messages
              /\ isLoading' = isLoading
              /\ inflight' = inflight
       /\ \A t \in inflight :
              /\ t.atSubmit.isContextEnabled <=>
                     t.promptWithContext /= t.processedInput
              /\ (t.pc = "json" /\ Resumes(t) /\ ~GenerationFailed(t)) =>
                     (t.atSubmit.isFactCheckEnabled <=>
                          \E n \in inflight' : n.pc = "classify")
              /\ t.pc \in {"classify", "verify"} =>
                     t.atSubmit.isFactCheckEnabled]_vars

\* C9 witness: both switches were flipped while a turn is in flight, which
\* classifies although isFactCheckEnabled is false by now.
C9_Witness ==
    \E t \in inflight :
        /\ t.pc = "classify"
        /\ t.atSubmit.isFactCheckEnabled /\ ~isFactCheckEnabled
        /\ t.atSubmit.isContextEnabled /= isContextEnabled

\* The texts of the last four messages of h (of all when h has fewer),
\* oldest first, with a blank line between two of them.
ExpectedContext(h) ==
    LET n == Len(h)
    IN  CASE n = 1 -> h[1].text
          [] n = 2 -> h[1].text \o BlankLine \o h[2].text
          [] n = 3 -> h[1].text \o BlankLine \o h[2].text
                          \o BlankLine \o h[3].text
          [] n >= 4 -> h[n - 3].text \o BlankLine \o h[n - 2].text
                          \o BlankLine \o h[n - 1].text
                          \o BlankLine \o h[n].text

\* C10: the prompt of a turn is, with isContextEnabled true, the template
\* around the texts of the last four messages of the history and the
\* normalized question, and with isContextEnabled false the normalized
\* question alone, which is the text of the turn's user message.
C10_ContextWindow ==
    \A t \in inflight :
        LET h == t.atSubmit.messages
        IN  /\ Len(messages) > Len(h)
            /\ messages[Len(h) + 1].sender = "user"
            /\ messages[Len(h) + 1].text = t.processedInput
            /\ t.promptWithContext =
                   IF t.atSubmit.isContextEnabled
                   THEN PromptHeader \o ExpectedContext(h)
                            \o PromptQuestion \o t.processedInput
                   ELSE t.processedInput

\* C10 witness: a turn is in flight whose prompt has the context and whose
\* history was longer than the window.
C10_Witness ==
    \E t \in inflight :
        /\ t.atSubmit.isContextEnabled
        /\ Len(t.atSubmit.messages) > ContextSize

\* The text between the first and the last character of in that is no
\* whitespace, both included; empty when there is none.
TrimmedInput(in) ==
    LET solid == {i \in 1..Len(in) : in[i] \notin Whitespace}
    IN  IF solid = {} THEN <<>>
        ELSE SubSeq(in, CHOOSE i \in solid : \A j \in solid : i <= j,
                        CHOOSE i \in solid : \A j \in solid : i >= j)

\* C11: the text of a user message appended by a submit is the trimmed input,
\* with a question mark appended exactly when the trimmed input does not end
\* with one; so the text ends with a question mark, and normalizing it again
\* leaves it unchanged.
C11_Normalization ==
    [][\A k \in 1..Len(messages') :
          (k > Len(messages) /\ messages'[k].sender = "user") =>
              LET trimmed == TrimmedInput(view.input)
                  text == messages'[k].text
              IN  /\ trimmed /= <<>>
                  /\ text = IF trimmed[Len(trimmed)] = "?"
                            THEN trimmed
                            ELSE trimmed \o <<"?">>
                  /\ text[Len(text)] = "?"
                  /\ ProcessedInput(text) = text]_vars

\* C11 witness: a user message was appended whose text keeps the whitespace
\* inside the input and ends with the one question mark.
C11_Witness ==
    /\ Len(messages) = 2
    /\ messages[2].sender = "user"
    /\ messages[2].text = <<"a", " ", "a", "?">>

\* The text is empty or has whitespace only.
Blank(in) == \A i \in 1..Len(in) : in[i] \in Whitespace

\* C12: a submit with blank input while isLoading is false has no effect: no
\* message is appended, no invocation (so no backend call) is started, the
\* input is kept and isLoading stays false.
C12_BlankRejected ==
    [][(~isLoading /\ Blank(view.input)) =>
           /\ messages' = messages
           /\ inflight' = inflight
           /\ input' = input
           /\ isLoading' = FALSE]_vars

\* C12 witness: the component is idle and the input is whitespace, not
\* empty, so the guard rejects the submit because of the trim.
C12_Witness ==
    /\ ~isLoading /\ inflight = {}
    /\ view.input /= <<>> /\ Blank(view.input)
    /\ ~SendGuard(view.input, view.isLoading)
    /\ messages = InitialMessages

\* The characters are the same letter, in whatever case.
SameLetter(c, d) ==
    \/ c = d
    \/ \E k \in 1..Len(LowerCh) : {c, d} = {LowerCh[k], UpperCh[k]}

\* text has phrase at offset i, in whatever case.
HasPhraseAt(text, phrase, i) ==
    /\ i + Len(phrase) <= Len(text)
    /\ \A j \in 1..Len(phrase) : SameLetter(text[i + j], phrase[j])

\* The extracted text says the statement is correct: it is the word CORRECT
\* or it contains one of the two phrases, in whatever case.
SaysCorrect(text) ==
    \/ Len(text) = Len(CorrectWord) /\ HasPhraseAt(text, CorrectWord, 0)
    \/ \E i \in 0..Len(text) : HasPhraseAt(text, StatementIsCorrectPhrase, i)
    \/ \E i \in 0..Len(text) : HasPhraseAt(text, ThisIsAccuratePhrase, i)

\* C13: when the verification call returns, the correction of the bot
\* message is null exactly when the extracted text is CORRECT or contains
\* "the statement is correct" or "this is accurate", in whatever case, and
\* else it is the extracted text; a response with neither text nor function
\* calls yields the unable-to-verify text, and one with function calls and
\* no candidate text the technical-limitations text, as the correction.
C13_VerifierDecision ==
    [][\A t \in inflight :
          (t.pc = "verify" /\ Resumes(t) /\ ~t.reply.throws) =>
              LET extracted == GroundedResponse(t.reply)
                  correction == Last(messages').correction
                  noText == t.reply.text \in {Undefined, <<>>}
                  noCalls == t.reply.functionCalls \in {Undefined, <<>>}
              IN  /\ Ends(t)
                  /\ Last(messages').text = t.response
                  /\ correction = Null <=> SaysCorrect(extracted)
                  /\ ~SaysCorrect(extracted) => correction = extracted
                  /\ (noText /\ noCalls) => correction = UnableToVerifyText
                  /\ (noText /\ ~noCalls /\ Candidates(t.reply) = <<>>) =>
                         correction = TechnicalLimitationsText]_vars

\* C13 witness: the turn has ended with a bot message whose correction is
\* the technical-limitations text.
C13_Witness ==
    /\ ~isLoading /\ inflight = {}
    /\ Len(messages) = 3
    /\ Last(messages).text = GenText
    /\ Last(messages).correction = TechnicalLimitationsText

\* C14: message ids are strictly increasing in creation order (so unique):
\* of any two messages of the conversation, the one appended earlier has
\* the smaller id.
C14_IdsIncreasing ==
    \A i, j \in 1..Len(messages) :
        i < j => messages[i].id < messages[j].id

\* C15: the conversation is append-only and its messages never change: in
\* every step the conversation before the step is a prefix of the one after
\* it, which has at most one message more; a bot message is appended with
\* its correction by the step that ends its turn.
C15_AppendOnly ==
    [][/\ Len(messages') \in {Len(messages), Len(messages) + 1}
       /\ SubSeq(messages', 1, Len(messages)) = messages
       /\ \A t \in inflight :
              (Resumes(t) /\ Len(messages') > Len(messages)) =>
                  /\ Last(messages').sender = "bot"
                  /\ inflight' = {}]_vars

\* C15 witness: a bot message carrying a correction is followed by the
\* messages of a later turn, which has ended too.
C15_Witness ==
    /\ ~isLoading /\ inflight = {}
    /\ Len(messages) = 5
    /\ messages[3].sender = "bot" /\ messages[3].correction = TxtIncorrect
    /\ messages[5].sender = "bot"

\* C16: an invocation starts to wait for a call only in a step that takes
\* the result of the call before it: the body of the generation response is
\* read after fetch answered with success, the classification call is
\* issued after the generation call gave a text, the verification call
\* after the classification call named a fact, each adding one call to the
\* calls issued; and never does more than one call wait for its result.
C16_SequentialCalls ==
    [][/\ Cardinality({n \in inflight' : n.reply = NoReply}) <= 1
       /\ \A n \in inflight' :
              (n \notin inflight /\ n.reply = NoReply) =>
                  CASE n.pc = "fetch" ->
                           /\ inflight = {}
                           /\ n.calls = <<"generate">>
                    [] n.pc = "json" ->
                           \E t \in inflight :
                               /\ t.pc = "fetch" /\ Resumes(t)
                               /\ ~t.reply.throws /\ t.reply.ok
                               /\ n.calls = <<"generate">>
                    [] n.pc = "classify" ->
                           \E t \in inflight :
                               /\ t.pc = "json" /\ Resumes(t)
                               /\ ~GenerationFailed(t)
                               /\ n.calls = <<"generate", "classify">>
                    [] n.pc = "verify" ->
                           \E t \in inflight :
                               /\ t.pc = "classify" /\ Resumes(t)
                               /\ t.reply \in RepliesNamingFact
                               /\ n.calls = <<"generate", "classify", "verify">>]_vars

\* C16 witness: the one invocation in flight has issued its three calls and
\* waits for the verification call.
C16_Witness ==
    /\ Cardinality(inflight) = 1
    /\ \E t \in inflight :
           /\ t.pc = "verify" /\ t.reply = NoReply
           /\ t.calls = <<"generate", "classify", "verify">>

\* C17: the conversation is the greeting followed by user and bot messages
\* in turn; while isLoading is false it ends with a bot message (every
\* accepted submit has added its user message and its one bot message), and
\* while isLoading is true it ends with the user message of the one
\* invocation in flight, appended before that invocation's first call.
C17_Alternation ==
    /\ messages[1] = Message(1, GreetingText, "bot", Null, FALSE)
    /\ \A i \in 2..Len(messages) :
           messages[i].sender = IF i % 2 = 0 THEN "user" ELSE "bot"
    /\ ~isLoading => Len(messages) % 2 = 1 /\ inflight = {}
    /\ isLoading =>
           /\ Len(messages) % 2 = 0
           /\ Cardinality(inflight) = 1
           /\ \A t \in inflight :
                  /\ Last(messages).text = t.processedInput
                  /\ Len(t.atSubmit.messages) = Len(messages) - 1
                  /\ t.calls[1] = "generate"

\* C17 witness: two turns have ended, the first with the error message and
\* the second with a normal bot message.
C17_Witness ==
    /\ ~isLoading /\ inflight = {}
    /\ Len(messages) = 5
    /\ messages[3].isError
    /\ ~messages[5].isError /\ messages[5].text = GenText

\* C18: the prompt of the turn in flight is made of the messages that come
\* before the turn's user message in the conversation, the last four of
\* them at most, and of the user message's text as the current question
\* only; it is not what the window over the conversation with the user
\* message in it would give, at any time of the turn.
C18_SnapshotBeforeTurn ==
    \A t \in inflight :
        LET k == Len(messages)
            before == SubSeq(messages, 1, k - 1)
        IN  /\ messages[k].sender = "user"
            /\ t.atSubmit.isContextEnabled =>
                   /\ t.promptWithContext =
                          PromptHeader \o ExpectedContext(before)
                              \o PromptQuestion \o messages[k].text
                   /\ t.promptWithContext /=
                          PromptHeader \o ExpectedContext(messages)
                              \o PromptQuestion \o messages[k].text

\* C18 witness: the second turn, accepted with the context on, has had the
\* answer of the generation endpoint; the conversation before its user
\* message is shorter than the window.
C18_Witness ==
    /\ Len(messages) = 4
    /\ \E t \in inflight :
           /\ t.atSubmit.isContextEnabled
           /\ t.pc = "json" /\ t.reply /= NoReply

====
